---------------------------- MODULE Spec2Model ----------------------------
(***************************************************************************)
(* The signaling server of live_test (server.js, the variant with rooms,   *)
(* passwords and the broadcaster reconnect grace period).                  *)
(*                                                                         *)
(* One handler runs to completion per step (Node's event loop).  The state *)
(* is the four registries of the server and the pending setTimeout         *)
(* callbacks.  A handler is an operator from the current state and its     *)
(* input to the next state and the messages it sends (field sent), so a    *)
(* statement about one handler is a statement about that operator in every *)
(* reachable state.                                                        *)
(*                                                                         *)
(* Spec is the server as the source has it: its join-room handler throws   *)
(* before it reads the payload.  SpecBound is the same server with the     *)
(* payload of join-room bound before the handler's checks, which is what   *)
(* the rest of the handler and the other revision of it presuppose; the    *)
(* statements about viewers are examined there.                            *)
(*                                                                         *)
(* Environment: create-room and join-room come from registered             *)
(* connections (the client registers first), and ids are handed out in     *)
(* order (uuidv4 is fresh).  A run is explored in one of four shapes,      *)
(* fixed at the start.  All have the room lifecycle (register, create,     *)
(* rejoin, join, leave, close, timer); "moderation" adds mute, unmute and  *)
(* kick; "protocol" adds passwords, malformed payloads, list-rooms, the    *)
(* anchor mute status and the relay; "rooms" has one more room and "conns" *)
(* one more connection instead.                                            *)
(***************************************************************************)
EXTENDS Integers, Sequences, FiniteSets, TLC

\* ------------------------------------------------------------------ bounds
MaxConns  == 2    \* connections accepted in a run (one more in shape "conns")
MaxIds    == 2    \* client-chosen persistent identities 1..MaxIds
MaxRooms  == 1    \* rooms created in a run (one more in shape "rooms")
MaxTimers == 1    \* reconnect timers started in a run (one more in "rooms", "conns")
MaxPw     == 1    \* password values 1..MaxPw
MaxName   == 1    \* room names 1..MaxName

Conns   == 1..(MaxConns + 1)
Ids     == 1..MaxIds
RoomIds == 1..(MaxRooms + 1)

\* JavaScript's undefined / null.
Undef == 0
Keys  == {Undef} \cup Ids

Shapes ==
    {[kind |-> "moderation", conns |-> MaxConns, rooms |-> MaxRooms, timers |-> MaxTimers],
     [kind |-> "protocol",   conns |-> MaxConns, rooms |-> MaxRooms, timers |-> MaxTimers],
     [kind |-> "rooms", conns |-> MaxConns,     rooms |-> MaxRooms + 1, timers |-> MaxTimers + 1],
     [kind |-> "conns", conns |-> MaxConns + 1, rooms |-> MaxRooms,     timers |-> MaxTimers + 1]}

VARIABLES
    shape,        \* the bounds of this run
    running,      \* the Node process is alive
    sockets,      \* connections whose socket is open (no 'close' event yet)
    clients,      \* clients Map: conn -> [reg, pid, role]
    p2c,          \* persistentIdToClientId: identity -> conn (Undef: no entry)
    rooms,        \* keys of the rooms Map
    roomObj,      \* the room objects (a timer's closure keeps one after rooms.delete)
    p2r,          \* persistentIdToRoomId: identity -> room id (Undef: no entry)
    timers,       \* pending reconnect timers: set of [h, r]
    kickPending,  \* connections with a pending kick-close timer
    fresh,        \* ids handed out so far: connections, rooms, timer handles
    closedSent    \* <<room, conn>>: conn was sent room-closed for room

vars == <<shape, running, sockets, clients, p2c, rooms, roomObj, p2r, timers,
          kickPending, fresh, closedSent>>

\* ----------------------------------------------------------------- values
NoClient == [reg |-> FALSE, pid |-> Undef, role |-> "none"]

NoRoom == [name |-> Undef, broadcasterId |-> Undef, viewers |-> {},
           mutedViewers |-> {}, isAnchorMuted |-> FALSE, status |-> "active",
           reconnectTimeout |-> Undef, password |-> Undef]

\* A message handed to ws.send: the receiving connection, the type and two
\* payload fields (identities, room ids, 0/1 flags); list is the room-list.
Msg(to, type, a, b) == [to |-> to, type |-> type, a |-> a, b |-> b, list |-> {}]

Bit(x) == IF x THEN 1 ELSE 0

RECURSIVE SetToSeq(_)
SetToSeq(S) ==
    IF S = {} THEN <<>>
    ELSE LET x == CHOOSE y \in S : \A z \in S : y <= z
         IN  <<x>> \o SetToSeq(S \ {x})

Range(s) == {s[i] : i \in 1..Len(s)}

\* The number of messages of a type a handler sent to a connection.
RECURSIVE Count(_, _, _)
Count(s, to, type) ==
    IF s = <<>> THEN 0
    ELSE Bit(Head(s).to = to /\ Head(s).type = type) + Count(Tail(s), to, type)

\* The state the handlers read and write, and the messages of one handler.
Cur ==
    [running |-> running, sockets |-> sockets, clients |-> clients, p2c |-> p2c,
     rooms |-> rooms, roomObj |-> roomObj, p2r |-> p2r, timers |-> timers,
     kickPending |-> kickPending, fresh |-> fresh, sent |-> <<>>]

Started ==
    [running |-> TRUE, sockets |-> {}, clients |-> [c \in Conns |-> NoClient],
     p2c |-> [i \in Ids |-> Undef], rooms |-> {},
     roomObj |-> [r \in RoomIds |-> NoRoom], p2r |-> [i \in Ids |-> Undef],
     timers |-> {}, kickPending |-> {}, fresh |-> [c |-> 0, r |-> 0, h |-> 0],
     sent |-> <<>>]

\* An exception thrown inside a ws 'message' listener is not caught anywhere
\* (no try/catch around the switch, no process.on('uncaughtException')): the
\* process exits and every registry, socket and timer goes with it.
Thrown == [Started EXCEPT !.running = FALSE]

\* clients.get(persistentIdToClientId.get(id)): the connection or Undef.
Resolve(idx, cl, id) ==
    IF id \in Ids /\ idx[id] # Undef /\ cl[idx[id]].reg THEN idx[id] ELSE Undef

\* viewers.forEach(v => { c = resolve(v); if (c) c.ws.send(type) })
RECURSIVE NotifySeq(_, _, _, _, _, _)
NotifySeq(vs, idx, cl, type, a, b) ==
    IF vs = <<>> THEN <<>>
    ELSE LET c == Resolve(idx, cl, Head(vs))
         IN  (IF c # Undef THEN <<Msg(c, type, a, b)>> ELSE <<>>)
             \o NotifySeq(Tail(vs), idx, cl, type, a, b)

Notify(V, idx, cl, type, a, b) == NotifySeq(SetToSeq(V), idx, cl, type, a, b)

\* A room object is garbage once it is out of the rooms Map and no pending
\* timer's closure holds it.
Collect(objs, dir, tms) ==
    [r \in RoomIds |->
        IF r \in dir \/ \E t \in tms : t.r = r THEN objs[r] ELSE NoRoom]

\* ------------------------------------------------------------------- init
Init ==
    /\ shape \in Shapes
    /\ running = TRUE
    /\ sockets = {}
    /\ clients = [c \in Conns |-> NoClient]
    /\ p2c = [i \in Ids |-> Undef]
    /\ rooms = {}
    /\ roomObj = [r \in RoomIds |-> NoRoom]
    /\ p2r = [i \in Ids |-> Undef]
    /\ timers = {}
    /\ kickPending = {}
    /\ fresh = [c |-> 0, r |-> 0, h |-> 0]
    /\ closedSent = {}

\* The room-closed notices of a handler, kept while a timer of the room is
\* still pending (afterwards no handler can send another one for that room).
ClosedNotices(res) ==
    {<<m.a, m.to>> : m \in {x \in Range(res.sent) : x.type = "room-closed"}}

Install(res) ==
    /\ running' = res.running
    /\ sockets' = res.sockets
    /\ clients' = res.clients
    /\ p2c' = res.p2c
    /\ rooms' = res.rooms
    /\ roomObj' = res.roomObj
    /\ p2r' = res.p2r
    /\ timers' = res.timers
    /\ kickPending' = res.kickPending
    /\ fresh' = res.fresh
    /\ closedSent' = {n \in closedSent \cup ClosedNotices(res) :
                         \E t \in res.timers : t.r = n[1]}
    /\ shape' = shape

\* The dispatcher runs a handler for a message of connection c.
Receives(c) == running /\ c \in sockets /\ clients[c].reg

\* What a run has beside the room lifecycle.
Moderation == shape.kind = "moderation"

Protocol == shape.kind = "protocol"

\* wss.on('connection'): a fresh connection id, an entry without identity.
OnConnection ==
    LET clientId == fresh.c + 1
    IN  [Cur EXCEPT !.fresh.c = clientId,
                    !.sockets = @ \cup {clientId},
                    !.clients[clientId] = [NoClient EXCEPT !.reg = TRUE]]

\* ------------------------------------------------------------ register
\* payload: absent, or {persistentId, username} with either possibly missing.
RegisterPayloads ==
    [present : {TRUE}, persistentId : Ids, username : {TRUE}]
    \cup (IF Protocol
          THEN {[present |-> FALSE, persistentId |-> Undef, username |-> FALSE],
                [present |-> TRUE,  persistentId |-> Undef, username |-> TRUE],
                [present |-> TRUE,  persistentId |-> 1,     username |-> FALSE]}
          ELSE {})

HandleRegistration(c, payload) ==
    IF ~payload.present
    THEN Thrown                      \* destructuring undefined: TypeError
    ELSE IF payload.persistentId = Undef \/ ~payload.username
    THEN Cur
    ELSE [Cur EXCEPT !.clients[c].pid = payload.persistentId,
                     !.p2c[payload.persistentId] = c,
                     !.sent = <<Msg(c, "registered", payload.persistentId, 0)>>]

\* ---------------------------------------------------------- create-room
CreatePayloads ==
    [present : {TRUE}, roomName : 1..MaxName,
     password : IF Protocol THEN 0..MaxPw ELSE {Undef}]
    \cup (IF Protocol
          THEN {[present |-> FALSE, roomName |-> Undef, password |-> Undef],
                [present |-> TRUE,  roomName |-> Undef, password |-> Undef]}
          ELSE {})

\* create-room without persistentIdToRoomId.set(broadcasterId, roomId).
CreateUnindexed(c, payload) ==
    IF ~payload.present
    THEN Thrown
    ELSE IF payload.roomName = Undef
    THEN Cur
    ELSE LET roomId == fresh.r + 1
             broadcasterId == clients[c].pid
         IN  [Cur EXCEPT !.fresh.r = roomId,
                         !.roomObj[roomId] =
                             [name |-> payload.roomName,
                              broadcasterId |-> broadcasterId,
                              viewers |-> {},
                              mutedViewers |-> {},
                              isAnchorMuted |-> FALSE,
                              status |-> "active",
                              reconnectTimeout |-> Undef,
                              password |-> payload.password],
                         !.rooms = @ \cup {roomId},
                         !.clients[c].role = "broadcaster",
                         !.sent = <<Msg(c, "room-created", roomId, payload.roomName)>>]

HandleCreateRoom(c, payload) ==
    IF ~payload.present
    THEN Thrown
    ELSE IF payload.roomName = Undef
    THEN Cur
    ELSE LET roomId == fresh.r + 1
             broadcasterId == clients[c].pid
         IN  [Cur EXCEPT !.fresh.r = roomId,
                         !.roomObj[roomId] =
                             [name |-> payload.roomName,
                              broadcasterId |-> broadcasterId,
                              viewers |-> {},
                              mutedViewers |-> {},
                              isAnchorMuted |-> FALSE,
                              status |-> "active",
                              reconnectTimeout |-> Undef,
                              password |-> payload.password],
                         !.rooms = @ \cup {roomId},
                         !.p2r[broadcasterId] = roomId,
                         !.clients[c].role = "broadcaster",
                         !.sent = <<Msg(c, "room-created", roomId, payload.roomName)>>]

\* ---------------------------------------------------------- rejoin-room
RejoinPayloads ==
    [present : {TRUE}, roomId : 1..shape.rooms, roomName : 1..MaxName,
     password : IF Protocol THEN 0..MaxPw ELSE {Undef}]
    \cup (IF Protocol
          THEN {[present |-> FALSE, roomId |-> Undef, roomName |-> Undef,
                 password |-> Undef]}
          ELSE {})

\* rejoin-room that keeps the stored password when the request has none.
RejoinKeepsPassword(c, payload) ==
    IF ~payload.present
    THEN Thrown
    ELSE LET persistentId == clients[c].pid
             roomId == payload.roomId
             room == roomObj[roomId]
         IN
         IF persistentId = Undef
         THEN Cur
         ELSE IF roomId \notin rooms \/ room.broadcasterId # persistentId
         THEN [Cur EXCEPT !.sent = <<Msg(c, "rejoin-room-failed", 0, 0)>>]
         ELSE LET idx == [p2c EXCEPT ![persistentId] = c]
              IN  [Cur EXCEPT
                     !.p2c = idx,
                     !.clients[c].role = "broadcaster",
                     !.roomObj[roomId] =
                         [room EXCEPT !.name = payload.roomName,
                                      !.password = IF payload.password = Undef
                                                   THEN @ ELSE payload.password,
                                      !.reconnectTimeout = Undef,
                                      !.status = "active"],
                     \* clearTimeout(room.reconnectTimeout)
                     !.timers = {t \in timers : t.h # room.reconnectTimeout},
                     !.sent = <<Msg(c, "room-rejoined", roomId, payload.roomName)>>
                         \o Notify(room.viewers \ {persistentId}, idx, clients,
                                   "broadcaster-rejoined", roomId, persistentId)]

\* rejoin-room without the room.broadcasterId !== persistentId check.
RejoinByAnyone(c, payload) ==
    IF ~payload.present
    THEN Thrown
    ELSE LET persistentId == clients[c].pid
             roomId == payload.roomId
             room == roomObj[roomId]
         IN
         IF persistentId = Undef
         THEN Cur
         ELSE IF roomId \notin rooms
         THEN [Cur EXCEPT !.sent = <<Msg(c, "rejoin-room-failed", 0, 0)>>]
         ELSE LET idx == [p2c EXCEPT ![persistentId] = c]
              IN  [Cur EXCEPT
                     !.p2c = idx,
                     !.clients[c].role = "broadcaster",
                     !.roomObj[roomId] =
                         [room EXCEPT !.name = payload.roomName,
                                      !.password = payload.password,
                                      !.reconnectTimeout = Undef,
                                      !.status = "active"],
                     \* clearTimeout(room.reconnectTimeout)
                     !.timers = {t \in timers : t.h # room.reconnectTimeout},
                     !.sent = <<Msg(c, "room-rejoined", roomId, payload.roomName)>>
                         \o Notify(room.viewers \ {persistentId}, idx, clients,
                                   "broadcaster-rejoined", roomId, persistentId)]

\* rejoin-room that clears the timer but keeps the stored handle.
RejoinKeepsHandle(c, payload) ==
    IF ~payload.present
    THEN Thrown
    ELSE LET persistentId == clients[c].pid
             roomId == payload.roomId
             room == roomObj[roomId]
         IN
         IF persistentId = Undef
         THEN Cur
         ELSE IF roomId \notin rooms \/ room.broadcasterId # persistentId
         THEN [Cur EXCEPT !.sent = <<Msg(c, "rejoin-room-failed", 0, 0)>>]
         ELSE LET idx == [p2c EXCEPT ![persistentId] = c]
              IN  [Cur EXCEPT
                     !.p2c = idx,
                     !.clients[c].role = "broadcaster",
                     !.roomObj[roomId] =
                         [room EXCEPT !.name = payload.roomName,
                                      !.password = payload.password,
                                      !.status = "active"],
                     \* clearTimeout(room.reconnectTimeout)
                     !.timers = {t \in timers : t.h # room.reconnectTimeout},
                     !.sent = <<Msg(c, "room-rejoined", roomId, payload.roomName)>>
                         \o Notify(room.viewers \ {persistentId}, idx, clients,
                                   "broadcaster-rejoined", roomId, persistentId)]

HandleRejoinRoom(c, payload) ==
    IF ~payload.present
    THEN Thrown
    ELSE LET persistentId == clients[c].pid
             roomId == payload.roomId
             room == roomObj[roomId]
         IN
         IF persistentId = Undef
         THEN Cur
         ELSE IF roomId \notin rooms \/ room.broadcasterId # persistentId
         THEN [Cur EXCEPT !.sent = <<Msg(c, "rejoin-room-failed", 0, 0)>>]
         ELSE LET idx == [p2c EXCEPT ![persistentId] = c]
              IN  [Cur EXCEPT
                     !.p2c = idx,
                     !.clients[c].role = "broadcaster",
                     !.roomObj[roomId] =
                         [room EXCEPT !.name = payload.roomName,
                                      !.password = payload.password,
                                      !.reconnectTimeout = Undef,
                                      !.status = "active"],
                     \* clearTimeout(room.reconnectTimeout)
                     !.timers = {t \in timers : t.h # room.reconnectTimeout},
                     !.sent = <<Msg(c, "room-rejoined", roomId, payload.roomName)>>
                         \o Notify(room.viewers \ {persistentId}, idx, clients,
                                   "broadcaster-rejoined", roomId, persistentId)]

\* ----------------------------------------------------------- list-rooms
RoomList ==
    {[roomId |-> r,
      hasBroadcasterName |-> Resolve(p2c, clients, roomObj[r].broadcasterId) # Undef,
      viewerCount |-> Cardinality(roomObj[r].viewers),
      isPasswordProtected |-> roomObj[r].password # Undef] : r \in rooms}

HandleListRooms(c) ==
    [Cur EXCEPT !.sent = <<[Msg(c, "room-list", 0, 0) EXCEPT !.list = RoomList]>>]

\* ------------------------------------------------------------ join-room
JoinPayloads ==
    [present : {TRUE}, roomId : 1..shape.rooms,
     password : IF Protocol THEN 0..(MaxPw + 1) ELSE {Undef}]
    \cup (IF Protocol
          THEN {[present |-> FALSE, roomId |-> Undef, password |-> Undef]}
          ELSE {})

\* The handler as it stands: its first statement reads `room`, which no scope
\* declares, so every call throws a ReferenceError.
HandleJoinRoom(c, payload) == Thrown

\* The statements after the two checks (viewerId ... live.anchor.mute).
JoinRoomAdmit(c, roomId) ==
    LET room == roomObj[roomId]
        viewerId == clients[c].pid
        broadcasterClient == Resolve(p2c, clients, room.broadcasterId)
    IN  [Cur EXCEPT
           !.roomObj[roomId].viewers = @ \cup {viewerId},
           !.p2r[viewerId] = roomId,
           !.clients[c].role = "viewer",
           !.sent = <<Msg(c, "joined-room", roomId, 0)>>
              \o (IF broadcasterClient # Undef
                  THEN <<Msg(broadcasterClient, "new-viewer", viewerId,
                             Bit(viewerId \in room.mutedViewers))>>
                  ELSE <<>>)
              \o (IF viewerId \in room.mutedViewers
                  THEN <<Msg(c, "viewer-muted-status", viewerId, 1)>>
                  ELSE <<>>)
              \o (IF room.isAnchorMuted
                  THEN <<Msg(c, "live.anchor.mute", room.broadcasterId, 1)>>
                  ELSE <<>>)]

\* The password check of the handler.
PasswordRejected(room, password) ==
    room.password # Undef /\ room.password # password

\* The handler with roomId and room bound from the payload before the first
\* check, as the other revision of the handler binds them
\* (const { roomId } = payload; const room = rooms.get(roomId)), and password
\* bound the way create-room and rejoin-room bind it.
JoinRoomBound(c, payload) ==
    IF ~payload.present
    THEN Thrown
    ELSE IF payload.roomId \notin rooms
    THEN [Cur EXCEPT !.sent = <<Msg(c, "error", 0, 0)>>]
    ELSE IF PasswordRejected(roomObj[payload.roomId], payload.password)
    THEN [Cur EXCEPT !.sent = <<Msg(c, "error", 1, 0)>>]  \* code PASSWORD_INCORRECT
    ELSE JoinRoomAdmit(c, payload.roomId)

\* ----------------------------------------------------------- leave-room
\* leave-room that also does room.mutedViewers.delete(viewerId).
LeaveRoomUnmutes(c) ==
    LET viewerId == clients[c].pid
        roomId == IF viewerId = Undef THEN Undef ELSE p2r[viewerId]
        room == roomObj[roomId]
    IN  IF roomId = Undef
        THEN Cur
        ELSE IF roomId \in rooms
        THEN [Cur EXCEPT !.roomObj[roomId].viewers = @ \ {viewerId},
                         !.roomObj[roomId].mutedViewers = @ \ {viewerId},
                         !.sent = Notify({room.broadcasterId}, p2c, clients,
                                         "viewer-left", viewerId, 0),
                         !.p2r[viewerId] = Undef,
                         !.clients[c].role = "none"]
        ELSE [Cur EXCEPT !.p2r[viewerId] = Undef,
                         !.clients[c].role = "none"]

HandleLeaveRoom(c) ==
    LET viewerId == clients[c].pid
        roomId == IF viewerId = Undef THEN Undef ELSE p2r[viewerId]
        room == roomObj[roomId]
    IN  IF roomId = Undef
        THEN Cur
        ELSE IF roomId \in rooms
        THEN [Cur EXCEPT !.roomObj[roomId].viewers = @ \ {viewerId},
                         !.sent = Notify({room.broadcasterId}, p2c, clients,
                                         "viewer-left", viewerId, 0),
                         !.p2r[viewerId] = Undef,
                         !.clients[c].role = "none"]
        ELSE [Cur EXCEPT !.p2r[viewerId] = Undef,
                         !.clients[c].role = "none"]

\* ------------------------------------------------------ ws.on('close')
HandleDisconnect(c) ==
    LET clientInfo == clients[c]
        persistentId == clientInfo.pid
        role == clientInfo.role
        roomId == IF persistentId = Undef THEN Undef ELSE p2r[persistentId]
        room == roomObj[roomId]
        \* the socket is closed whatever the handler does; ws.close() of a
        \* pending kick timer on a closed socket does nothing
        gone == [Cur EXCEPT !.sockets = @ \ {c}, !.kickPending = @ \ {c}]
    IN
    IF ~clientInfo.reg \/ persistentId = Undef
    THEN [gone EXCEPT !.clients[c] = NoClient]
    ELSE IF role = "broadcaster" /\ roomId # Undef
    THEN IF roomId \notin rooms
         THEN gone       \* early return: the entries of the connection stay
         ELSE LET h == fresh.h + 1
              IN  [gone EXCEPT
                     !.fresh.h = h,
                     !.roomObj[roomId] = [room EXCEPT !.status = "pending_rejoin",
                                                      !.reconnectTimeout = h],
                     !.timers = @ \cup {[h |-> h, r |-> roomId]},
                     !.sent = Notify(room.viewers, p2c, clients,
                                     "broadcaster-disconnected", roomId, 0),
                     !.clients[c] = NoClient,
                     !.p2c[persistentId] = Undef]
    ELSE IF role = "viewer" /\ roomId # Undef
    THEN IF roomId \in rooms
         THEN [gone EXCEPT
                 !.roomObj[roomId] =
                     [room EXCEPT !.viewers = @ \ {persistentId},
                                  !.mutedViewers = @ \ {persistentId}],
                 !.sent = Notify({room.broadcasterId}, p2c, clients,
                                 "viewer-left", persistentId, 0),
                 !.p2r[persistentId] = Undef,
                 !.clients[c] = NoClient,
                 !.p2c[persistentId] = Undef]
         ELSE [gone EXCEPT !.p2r[persistentId] = Undef,
                           !.clients[c] = NoClient,
                           !.p2c[persistentId] = Undef]
    ELSE [gone EXCEPT !.clients[c] = NoClient,
                      !.p2c[persistentId] = Undef]

\* The close starts a reconnect timer.
StartsTimer(c) ==
    /\ clients[c].pid # Undef
    /\ clients[c].role = "broadcaster"
    /\ p2r[clients[c].pid] \in rooms

\* A socket of the running server that can close now.
Closes(c) ==
    /\ running
    /\ c \in sockets
    /\ StartsTimer(c) => fresh.h < shape.timers

\* The identities the timer callback finds a connection for.
Reached(V) == {v \in V : Resolve(p2c, clients, v) # Undef}

\* The callback of room.reconnectTimeout = setTimeout(..., RECONNECT_TIMEOUT_MS),
\* with the room object and room id its closure captured.
ReconnectTimeout(t) ==
    LET roomId == t.r
        room == roomObj[roomId]
        dir == rooms \ {roomId}
        tms == timers \ {t}
    IN  [Cur EXCEPT
           !.sent = Notify(room.viewers, p2c, clients, "room-closed", roomId, 0),
           !.p2r = [k \in Ids |-> IF k \in Reached(room.viewers) THEN Undef ELSE p2r[k]],
           !.rooms = dir,
           !.timers = tms,
           !.roomObj = Collect(roomObj, dir, tms)]

\* ------------------------------------------------ mute-viewer / unmute-viewer
TargetPayloads ==
    {[present |-> FALSE, targetId |-> Undef]}
    \cup [present : {TRUE}, targetId : Keys]

\* The checks without room.broadcasterId !== broadcasterInfo.persistentId.
OwnsRoomUnchecked(c, targetId) ==
    LET persistentId == clients[c].pid
        roomId == IF persistentId = Undef THEN Undef ELSE p2r[persistentId]
    IN  /\ roomId \in rooms
        /\ targetId \in roomObj[roomId].viewers

\* The two checks shared by mute-viewer, unmute-viewer and kick-user.
OwnsRoomOf(c, targetId) ==
    LET persistentId == clients[c].pid
        roomId == IF persistentId = Undef THEN Undef ELSE p2r[persistentId]
    IN  /\ roomId \in rooms
        /\ roomObj[roomId].broadcasterId = persistentId
        /\ targetId \in roomObj[roomId].viewers

MuteStatus(c, targetId, isMuted) ==
    Notify({targetId}, p2c, clients, "viewer-muted-status", targetId, Bit(isMuted))
    \o <<Msg(c, "viewer-muted-status", targetId, Bit(isMuted))>>

\* mute-viewer without the viewers.has(targetId) check.
MuteViewerUnchecked(c, payload) ==
    LET persistentId == clients[c].pid
        roomId == IF persistentId = Undef THEN Undef ELSE p2r[persistentId]
    IN  IF ~payload.present
        THEN Thrown
        ELSE IF roomId \notin rooms \/ roomObj[roomId].broadcasterId # persistentId
        THEN Cur
        ELSE [Cur EXCEPT !.roomObj[roomId].mutedViewers = @ \cup {payload.targetId},
                         !.sent = MuteStatus(c, payload.targetId, TRUE)]

HandleMuteViewer(c, payload) ==
    IF ~payload.present
    THEN Thrown
    ELSE IF ~OwnsRoomOf(c, payload.targetId)
    THEN Cur
    ELSE [Cur EXCEPT !.roomObj[p2r[clients[c].pid]].mutedViewers =
                         @ \cup {payload.targetId},
                     !.sent = MuteStatus(c, payload.targetId, TRUE)]

\* unmute-viewer that notifies without mutedViewers.delete(targetId).
UnmuteViewerKeeps(c, payload) ==
    IF ~payload.present
    THEN Thrown
    ELSE IF ~OwnsRoomOf(c, payload.targetId)
    THEN Cur
    ELSE [Cur EXCEPT !.sent = MuteStatus(c, payload.targetId, FALSE)]

HandleUnmuteViewer(c, payload) ==
    IF ~payload.present
    THEN Thrown
    ELSE IF ~OwnsRoomOf(c, payload.targetId)
    THEN Cur
    ELSE [Cur EXCEPT !.roomObj[p2r[clients[c].pid]].mutedViewers =
                         @ \ {payload.targetId},
                     !.sent = MuteStatus(c, payload.targetId, FALSE)]

\* ------------------------------------ live.anchor.mute / live.anchor.unmute
AnchorTypes == {"live.anchor.mute", "live.anchor.unmute"}

AnchorPayloads ==
    {[present |-> FALSE, anchorId |-> Undef, isMuted |-> FALSE]}
    \cup [present : {TRUE}, anchorId : Keys, isMuted : BOOLEAN]

HandleAnchorMuteStatus(c, type, payload) ==
    IF ~payload.present
    THEN Thrown
    ELSE LET anchorId == payload.anchorId
             roomId == IF anchorId = Undef THEN Undef ELSE p2r[anchorId]
         IN  IF roomId \notin rooms \/ roomObj[roomId].broadcasterId # anchorId
             THEN Cur
             ELSE [Cur EXCEPT
                     !.roomObj[roomId].isAnchorMuted = payload.isMuted,
                     !.sent = Notify(roomObj[roomId].viewers, p2c, clients,
                                     type, anchorId, Bit(payload.isMuted))]

\* ------------------------------------------------ offer / answer / candidate
P2PTypes == {"offer", "answer", "candidate"}

P2PPayloads ==
    {[present |-> FALSE, targetId |-> Undef, senderId |-> Undef]}
    \cup [present : {TRUE}, targetId : Keys, senderId : Keys]

\* { senderId, ...message.payload }: a senderId of the payload wins.
SpreadUnder(payload, senderId) ==
    IF payload.senderId # Undef THEN payload
    ELSE [payload EXCEPT !.senderId = senderId]

\* { ...message.payload, senderId }: the sender's identity replaces a
\* senderId field of the payload.
Spread(payload, senderId) == [payload EXCEPT !.senderId = senderId]

\* routeP2PMessage(clientInfo.persistentId, message)
RouteP2PMessage(c, type, payload) ==
    IF ~payload.present
    THEN Thrown
    ELSE IF payload.targetId = Undef
    THEN Cur
    ELSE [Cur EXCEPT !.sent = Notify({payload.targetId}, p2c, clients, type,
                                     Spread(payload, clients[c].pid).senderId, 0)]

\* ------------------------------------------------------------- kick-user
\* kick-user without the room.viewers.has(targetId) check.
KickUnchecked(c, payload) ==
    LET persistentId == clients[c].pid
        roomId == IF persistentId = Undef THEN Undef ELSE p2r[persistentId]
        targetClient == Resolve(p2c, clients, payload.targetId)
    IN  IF ~payload.present
        THEN Thrown
        ELSE IF roomId \notin rooms \/ roomObj[roomId].broadcasterId # persistentId
        THEN Cur
        ELSE IF targetClient = Undef
        THEN Cur
        ELSE [Cur EXCEPT
                !.sent = <<Msg(targetClient, "kicked", 0, 0)>>,
                !.kickPending = IF targetClient \in sockets
                                THEN @ \cup {targetClient} ELSE @]

HandleKickUser(c, payload) ==
    IF ~payload.present
    THEN Thrown
    ELSE IF ~OwnsRoomOf(c, payload.targetId)
    THEN Cur
    ELSE LET targetClient == Resolve(p2c, clients, payload.targetId)
         IN  IF targetClient = Undef
             THEN Cur
             ELSE [Cur EXCEPT
                     !.sent = <<Msg(targetClient, "kicked", 0, 0)>>,
                     !.kickPending = IF targetClient \in sockets
                                     THEN @ \cup {targetClient} ELSE @]

\* ------------------------------------------------------------ the server
Connect ==
    /\ running
    /\ fresh.c < shape.conns
    /\ Install(OnConnection)

Register ==
    \E c \in Conns, p \in RegisterPayloads :
        Receives(c) /\ Install(HandleRegistration(c, p))

\* The room is within the bounds of the run.
Creates(c, p) ==
    /\ Receives(c)
    /\ clients[c].pid # Undef
    /\ (p.present /\ p.roomName # Undef) => fresh.r < shape.rooms

CreateRoom ==
    \E c \in Conns, p \in CreatePayloads :
        Creates(c, p) /\ Install(HandleCreateRoom(c, p))

RejoinRoom ==
    \E c \in Conns, p \in RejoinPayloads :
        Receives(c) /\ Install(HandleRejoinRoom(c, p))

ListRooms ==
    \E c \in Conns : Protocol /\ Receives(c) /\ Install(HandleListRooms(c))

Joins(c) == Receives(c) /\ clients[c].pid # Undef

JoinRoom ==
    \E c \in Conns, p \in JoinPayloads :
        Joins(c) /\ Install(HandleJoinRoom(c, p))

JoinRoomAsBound ==
    \E c \in Conns, p \in JoinPayloads :
        Joins(c) /\ Install(JoinRoomBound(c, p))

LeaveRoom ==
    \E c \in Conns : Receives(c) /\ Install(HandleLeaveRoom(c))

MuteViewer ==
    \E c \in Conns, p \in TargetPayloads :
        Moderation /\ Receives(c) /\ Install(HandleMuteViewer(c, p))

UnmuteViewer ==
    \E c \in Conns, p \in TargetPayloads :
        Moderation /\ Receives(c) /\ Install(HandleUnmuteViewer(c, p))

AnchorMuteStatus ==
    \E c \in Conns, ty \in AnchorTypes, p \in AnchorPayloads :
        Protocol /\ Receives(c) /\ Install(HandleAnchorMuteStatus(c, ty, p))

P2PMessage ==
    \E c \in Conns, ty \in P2PTypes, p \in P2PPayloads :
        Protocol /\ Receives(c) /\ Install(RouteP2PMessage(c, ty, p))

KickUser ==
    \E c \in Conns, p \in TargetPayloads :
        Moderation /\ Receives(c) /\ Install(HandleKickUser(c, p))

\* ws.on('close'): the peer, the network or the ws.close() of a pending kick
\* timer (setTimeout(() => targetClient.ws.close(), 100)) ends the connection.
Close ==
    \E c \in Conns : Closes(c) /\ Install(HandleDisconnect(c))

TimerFires ==
    \E t \in timers : running /\ Install(ReconnectTimeout(t))

\* Every result the dispatcher's switch can have for a message of c.
Dispatch(c) ==
    {HandleRegistration(c, p) : p \in RegisterPayloads}
    \cup {HandleCreateRoom(c, p) : p \in {q \in CreatePayloads : Creates(c, q)}}
    \cup {HandleRejoinRoom(c, p) : p \in RejoinPayloads}
    \cup {HandleJoinRoom(c, p) : p \in {q \in JoinPayloads : Joins(c)}}
    \cup {HandleLeaveRoom(c)}
    \cup (IF Protocol
          THEN {HandleListRooms(c)}
               \cup {HandleAnchorMuteStatus(c, ty, p) : ty \in AnchorTypes, p \in AnchorPayloads}
               \cup {RouteP2PMessage(c, ty, p) : ty \in P2PTypes, p \in P2PPayloads}
          ELSE {})
    \cup (IF Moderation
          THEN {HandleMuteViewer(c, p) : p \in TargetPayloads}
               \cup {HandleUnmuteViewer(c, p) : p \in TargetPayloads}
               \cup {HandleKickUser(c, p) : p \in TargetPayloads}
          ELSE {})

\* Everything but join-room.
Serve ==
    \/ Connect
    \/ Register
    \/ CreateRoom
    \/ RejoinRoom
    \/ ListRooms
    \/ LeaveRoom
    \/ MuteViewer
    \/ UnmuteViewer
    \/ AnchorMuteStatus
    \/ P2PMessage
    \/ KickUser
    \/ Close
    \/ TimerFires

\* The server as the source has it.
Next == Serve \/ JoinRoom

Spec == Init /\ [][Next]_vars

\* The server with join-room's payload bound before its checks.
NextBound == Serve \/ JoinRoomAsBound

SpecBound == Init /\ [][NextBound]_vars

\* The event loop runs the callback of every scheduled setTimeout once its
\* delay has passed: a pending reconnect timer does not stay pending for ever.
SpecFair == Spec /\ WF_vars(TimerFires)

\* ================================================================ claims
\* Identities muted in room r that are not viewers of it.
MutedOutside(objs, r) == objs[r].mutedViewers \ objs[r].viewers

\* The messages of one type among those a handler sent.
OfType(s, type) == {i \in 1..Len(s) : s[i].type = type}

\* C1 as stated: in every reachable state every existing room satisfies
\* mutedViewers \subseteq viewers.
C1_MutedAreViewers ==
    \A r \in rooms : roomObj[r].mutedViewers \subseteq roomObj[r].viewers

\* C1 amended: the identities muted in a room without being its viewers grow
\* only by a leave-room, and then by exactly the identity that left; every
\* other event (register, create, join, mute, unmute, kick, close, rejoin,
\* timer) preserves mutedViewers \subseteq viewers.
C1_MutedOutsideOnlyByLeave ==
    [][\A r \in RoomIds :
         LET grown == MutedOutside(roomObj', r) \ MutedOutside(roomObj, r)
         IN  grown # {} =>
                \E c \in Conns :
                    /\ Receives(c)
                    /\ clients[c].pid # Undef
                    /\ p2r[clients[c].pid] = r
                    /\ grown = {clients[c].pid}
                    /\ roomObj' = HandleLeaveRoom(c).roomObj
                    /\ p2r' = HandleLeaveRoom(c).p2r]_vars

\* A muted viewer has left its room by leave-room and the room still exists.
C1_Witness ==
    \E r \in rooms : MutedOutside(roomObj, r) # {}

\* C2: no identity is in the viewers of more than one existing room, also
\* after a join-room for a second room without leaving the first.
C2_OneRoomPerViewer ==
    \A r1, r2 \in rooms :
        r1 # r2 => roomObj[r1].viewers \cap roomObj[r2].viewers = {}

\* A rejoin-room that the handler accepts.
RejoinAccepted(c, p) ==
    /\ Receives(c)
    /\ p.present
    /\ clients[c].pid # Undef
    /\ p.roomId \in rooms
    /\ roomObj[p.roomId].broadcasterId = clients[c].pid

\* C3, first half: once a rejoin-room was accepted for a pending room (the
\* room is active again, its broadcaster has not disconnected since), no
\* timer of that room sends room-closed to anyone.
C3_NoCloseAfterRejoin ==
    \A t \in timers :
        (t.r \in rooms /\ roomObj[t.r].status = "active") =>
            OfType(ReconnectTimeout(t).sent, "room-closed") = {}

\* C3, second half: a rejoin-room accepted while the room is pending sends
\* one broadcaster-rejoined for every viewer still in the room, to the
\* connection its identity resolves to.
C3_RejoinNotifiesViewers ==
    \A c \in Conns, p \in RejoinPayloads :
        (RejoinAccepted(c, p) /\ roomObj[p.roomId].status = "pending_rejoin") =>
            LET res == HandleRejoinRoom(c, p)
                others == roomObj[p.roomId].viewers \ {clients[c].pid}
            IN  \A x \in Conns :
                    Count(res.sent, x, "broadcaster-rejoined")
                        = Cardinality({v \in others :
                                          Resolve(res.p2c, res.clients, v) = x})

\* C3: a rejoin-room handled within the grace period ends the closing of the
\* room and tells every remaining viewer once.
C3_RejoinWithinGrace ==
    C3_NoCloseAfterRejoin /\ C3_RejoinNotifiesViewers

\* C4: without a rejoin-room the timer of a pending room sends one
\* room-closed for every viewer of the room, to the connection its identity
\* resolves to, to no connection that was sent room-closed for this room
\* before, and takes the room out of the rooms list-rooms reports.
C4_ClosedOnceAndUnlisted ==
    \A t \in timers :
        roomObj[t.r].status = "pending_rejoin" =>
            LET res == ReconnectTimeout(t)
            IN  /\ \A x \in Conns :
                       Count(res.sent, x, "room-closed")
                           = Cardinality({v \in roomObj[t.r].viewers :
                                             Resolve(p2c, clients, v) = x})
                /\ \A i \in OfType(res.sent, "room-closed") :
                       <<t.r, res.sent[i].to>> \notin closedSent
                /\ t.r \notin res.rooms

\* C5: when an identity is bound to an open connection B, the close of an
\* older connection A of the same identity leaves the index entry at B.
C5_StaleCloseKeepsBinding ==
    \A a \in Conns :
        LET i == clients[a].pid
        IN  (/\ Closes(a)
             /\ i # Undef
             /\ p2c[i] # Undef
             /\ p2c[i] # a
             /\ p2c[i] \in sockets
             /\ clients[p2c[i]].pid = i)
            => HandleDisconnect(a).p2c[i] = p2c[i]

\* A join-room for an existing room, from a registered connection.
JoinsRoom(c, p) == Joins(c) /\ p.present /\ p.roomId \in rooms

\* The handler admitted the caller to the room.
JoinAccepted(res, c, r) ==
    /\ res.running
    /\ clients[c].pid \in res.roomObj[r].viewers
    /\ Count(res.sent, c, "joined-room") = 1

\* The handler answered the caller with the error of the given code
\* (1: PASSWORD_INCORRECT, 0: none).
JoinRefused(res, c, code) ==
    /\ res.running
    /\ Count(res.sent, c, "error") = 1
    /\ Msg(c, "error", code, 0) \in Range(res.sent)
    /\ Count(res.sent, c, "joined-room") = 0

\* C6: a join-room for an existing room succeeds when the room has no
\* password or the supplied password equals the room's, and fails with the
\* PasswordIncorrect code when the room's password differs or none is given.
C6_PasswordDecidesJoin ==
    \A c \in Conns, p \in JoinPayloads :
        JoinsRoom(c, p) =>
            LET room == roomObj[p.roomId]
                res == HandleJoinRoom(c, p)
            IN  IF room.password = Undef \/ room.password = p.password
                THEN JoinAccepted(res, c, p.roomId)
                ELSE JoinRefused(res, c, 1)

\* C7: a successful join-room adds the caller to viewers, sets its index
\* entry and role, replies joined-room and sends the attached broadcaster
\* exactly one new-viewer with the viewer's identity and mute status.
C7_JoinEffects ==
    \A c \in Conns, p \in JoinPayloads :
        (JoinsRoom(c, p) /\ ~PasswordRejected(roomObj[p.roomId], p.password)) =>
            LET room == roomObj[p.roomId]
                viewerId == clients[c].pid
                res == HandleJoinRoom(c, p)
                b == Resolve(p2c, clients, room.broadcasterId)
            IN  /\ viewerId \in res.roomObj[p.roomId].viewers
                /\ res.p2r[viewerId] = p.roomId
                /\ res.clients[c].role = "viewer"
                /\ Count(res.sent, c, "joined-room") = 1
                /\ b # Undef =>
                      /\ Count(res.sent, b, "new-viewer") = 1
                      /\ Msg(b, "new-viewer", viewerId,
                             Bit(viewerId \in room.mutedViewers)) \in Range(res.sent)

\* C8: a join-room that fails (no such room, or password rejected) changes
\* no registry, is answered with one error reply (without the password code
\* when the room is missing) and sends no new-viewer.
C8_FailedJoinChangesNothing ==
    \A c \in Conns, p \in JoinPayloads :
        (/\ Joins(c)
         /\ p.present
         /\ p.roomId \notin rooms \/ PasswordRejected(roomObj[p.roomId], p.password))
        => LET res == HandleJoinRoom(c, p)
           IN  /\ res.clients = clients
               /\ res.p2c = p2c
               /\ res.rooms = rooms
               /\ res.roomObj = roomObj
               /\ res.p2r = p2r
               /\ Count(res.sent, c, "error") = 1
               /\ p.roomId \notin rooms => Msg(c, "error", 0, 0) \in Range(res.sent)
               /\ OfType(res.sent, "new-viewer") = {}

\* C9: whatever message a connection sends, with or without payload, the
\* process keeps running and the entry and socket of every other connection
\* stay as they are.
C9_MessagesAreLocal ==
    \A c \in Conns :
        Receives(c) =>
            \A res \in Dispatch(c) :
                /\ res.running
                /\ \A o \in Conns \ {c} :
                       /\ res.clients[o] = clients[o]
                       /\ o \in sockets => o \in res.sockets

\* C10, the notice: a kick-user of the room's broadcaster against a current
\* viewer sends the target one kicked notice, and none when the target has
\* been kicked already and its delayed close is still pending.
C10_OneKickedNotice ==
    \A c \in Conns, p \in TargetPayloads :
        (Moderation /\ Receives(c) /\ p.present /\ OwnsRoomOf(c, p.targetId)
           /\ Resolve(p2c, clients, p.targetId) # Undef) =>
            LET target == Resolve(p2c, clients, p.targetId)
                res == HandleKickUser(c, p)
            IN  Count(res.sent, target, "kicked")
                    = IF target \in kickPending THEN 0 ELSE 1

\* C10, the cleanup: the close of a kicked connection that is a viewer of a
\* room removes it from viewers and mutedViewers, clears its index entry and
\* sends the attached broadcaster exactly one viewer-left.
C10_KickedIsCleanedUp ==
    \A x \in kickPending :
        LET v == clients[x].pid
            r == IF v = Undef THEN Undef ELSE p2r[v]
        IN  (/\ Closes(x)
             /\ clients[x].role = "viewer"
             /\ r \in rooms
             /\ v \in roomObj[r].viewers)
            => LET res == HandleDisconnect(x)
                   b == Resolve(p2c, clients, roomObj[r].broadcasterId)
               IN  /\ v \notin res.roomObj[r].viewers
                   /\ v \notin res.roomObj[r].mutedViewers
                   /\ res.p2r[v] = Undef
                   /\ x \notin res.sockets
                   /\ b # Undef => Count(res.sent, b, "viewer-left") = 1

\* C10: kick-user produces exactly one kicked notice, then the close and the
\* disconnect cleanup with one viewer-left, also when it is issued again
\* before the delayed close.
C10_KickOnce ==
    C10_OneKickedNotice /\ C10_KickedIsCleanedUp

\* A mute-viewer, unmute-viewer or kick-user the handler accepts: the sender's
\* identity is the broadcaster of the room its index entry names and the
\* target is a viewer of that room.
Moderates(c, p) ==
    Moderation /\ Receives(c) /\ p.present /\ OwnsRoomOf(c, p.targetId)

\* The viewer-muted-status messages of one accepted request: one to the
\* connection the target resolves to, if any, then one to the broadcaster.
StatusTold(res, c, v, bit) ==
    LET t == Resolve(p2c, clients, v)
    IN  res.sent = (IF t # Undef
                    THEN <<Msg(t, "viewer-muted-status", v, bit)>>
                    ELSE <<>>)
                   \o <<Msg(c, "viewer-muted-status", v, bit)>>

\* The registries of a result, without the mute set of room r.
Besides(res, r) ==
    <<res.running, res.sockets, res.clients, res.p2c, res.rooms, res.p2r,
      res.timers, res.kickPending,
      [x \in RoomIds |-> [res.roomObj[x] EXCEPT !.mutedViewers =
                              IF x = r THEN {} ELSE @]]>>

Registries(res) ==
    <<res.running, res.sockets, res.clients, res.p2c, res.rooms, res.roomObj,
      res.p2r, res.timers, res.kickPending>>

\* C12: relaying an offer, answer or candidate changes no room, viewers or
\* mutedViewers set, anchor-mute flag, index or role; when the target
\* resolves to a connection exactly one message of the same kind goes to that
\* connection, with senderId the sender's bound identity whatever senderId
\* the payload carries, and when it does not resolve nothing is sent.
C12_RelayChangesNothing ==
    \A c \in Conns, ty \in P2PTypes, p \in P2PPayloads :
        (Protocol /\ Receives(c) /\ p.present) =>
            LET res == RouteP2PMessage(c, ty, p)
                b == Resolve(p2c, clients, p.targetId)
            IN  /\ Registries(res) = Registries(Cur)
                /\ res.sent = IF b # Undef
                              THEN <<Msg(b, ty, clients[c].pid, 0)>>
                              ELSE <<>>

\* A registered sender relays to a target bound to another connection, with
\* a senderId in the payload that is not its own identity.
C12_Witness ==
    \E c \in Conns, p \in P2PPayloads :
        /\ Protocol /\ Receives(c) /\ p.present
        /\ clients[c].pid # Undef
        /\ p.senderId \notin {Undef, clients[c].pid}
        /\ Resolve(p2c, clients, p.targetId) \notin {Undef, c}
        /\ rooms # {}

\* C13: in every reachable state every room of the directory has status
\* active or pending_rejoin, and its stored reconnect-timer handle is set
\* exactly when its status is pending_rejoin.
C13_HandleIffPending ==
    \A r \in rooms :
        /\ roomObj[r].status \in {"active", "pending_rejoin"}
        /\ (roomObj[r].reconnectTimeout # Undef)
               <=> (roomObj[r].status = "pending_rejoin")

\* The only room waits for its broadcaster for the second time: it was
\* created, left pending, taken back and left pending again.
C13_Witness ==
    /\ shape.rooms = 1
    /\ \E r \in rooms : /\ roomObj[r].status = "pending_rejoin"
                        /\ roomObj[r].reconnectTimeout = 2

\* C14: the broadcaster identity of a room is never in that room's viewers
\* set, also after the broadcaster sent join-room for its own room.
C14_BroadcasterNotViewer ==
    \A r \in rooms : roomObj[r].broadcasterId \notin roomObj[r].viewers

\* The sender is the broadcaster of a room that has the target as a viewer.
BroadcasterOver(c, targetId, r) ==
    /\ r \in rooms
    /\ clients[c].pid # Undef
    /\ roomObj[r].broadcasterId = clients[c].pid
    /\ targetId \in roomObj[r].viewers

C16_OnlyAnchorSetsFlag ==
    \A c \in Conns, ty \in AnchorTypes, p \in AnchorPayloads :
        (Protocol /\ Receives(c) /\ p.present) =>
            LET res == HandleAnchorMuteStatus(c, ty, p)
            IN  /\ \A r \in RoomIds :
                       res.roomObj[r].isAnchorMuted # roomObj[r].isAnchorMuted
                           => /\ r \in rooms
                              /\ roomObj[r].broadcasterId = clients[c].pid
                /\ (\A r \in rooms : roomObj[r].broadcasterId # clients[c].pid)
                       => /\ Registries(res) = Registries(Cur)
                          /\ res.sent = <<>>

BoundToBroadcaster(c, r) ==
    /\ running /\ c \in sockets
    /\ r \in rooms
    /\ clients[c].pid # Undef
    /\ roomObj[r].broadcasterId = clients[c].pid
    /\ p2c[clients[c].pid] = c

\* C18: whenever the connection bound to the broadcaster of an active room
\* closes, the room becomes pending_rejoin in that step, stays in the
\* directory with viewers, mutedViewers and anchor-mute flag unchanged, a
\* grace-period timer for it is started, and its viewers are sent
\* broadcaster-disconnected and no room-closed.
C18_BroadcasterCloseSuspends ==
    \A c \in Conns, r \in RoomIds :
        (BoundToBroadcaster(c, r) /\ roomObj[r].status = "active") =>
            LET res == HandleDisconnect(c)
                room == res.roomObj[r]
            IN  /\ r \in res.rooms
                /\ room.status = "pending_rejoin"
                /\ room.viewers = roomObj[r].viewers
                /\ room.mutedViewers = roomObj[r].mutedViewers
                /\ room.isAnchorMuted = roomObj[r].isAnchorMuted
                /\ \E t \in res.timers \ timers :
                       t.r = r /\ t.h = room.reconnectTimeout
                /\ res.sent = Notify(roomObj[r].viewers, p2c, clients,
                                     "broadcaster-disconnected", r, 0)

\* The rejoin-room request of c must fail: no such room, or another owner.
RejoinMustFail(c, p) ==
    /\ Receives(c) /\ p.present
    /\ \/ p.roomId \notin rooms
       \/ roomObj[p.roomId].broadcasterId # clients[c].pid

FailedRejoin(c, p) ==
    LET res == HandleRejoinRoom(c, p)
    IN  /\ res.sent = <<Msg(c, "rejoin-room-failed", 0, 0)>>
        /\ Registries(res) = Registries(Cur)

\* C19: rejoin-room is answered with rejoin-room-failed whenever the room id
\* does not exist or the room's owner is not the caller's identity, and the
\* failed rejoin changes nothing: name, password, status, timer handle and
\* running timers, identity index and the caller's role are as before.
C19_RejoinFails ==
    \A c \in Conns, p \in RejoinPayloads :
        RejoinMustFail(c, p) => FailedRejoin(c, p)

\* The same for callers that are bound to an identity.
C19_RejoinOfBoundFails ==
    \A c \in Conns, p \in RejoinPayloads :
        (RejoinMustFail(c, p) /\ clients[c].pid # Undef) => FailedRejoin(c, p)

\* C20: after the close event of a connection has been handled its entry is
\* no longer in the connection registry, whatever its role, bound or not,
\* and whether or not the room its identity is indexed to still exists.
C20_CloseRemovesEntry ==
    \A c \in Conns :
        (running /\ c \in sockets) =>
            LET res == HandleDisconnect(c)
            IN  /\ c \notin res.sockets
                /\ res.clients[c] = NoClient

\* C21: create-room with an empty or missing room name changes no state and
\* sends no reply; otherwise it adds exactly one room with a fresh id, status
\* active, no timer, empty viewers and mutedViewers, anchor-mute false and the
\* caller's identity as broadcaster, points the caller's identity->room entry
\* at the new room, sets the caller's role to broadcaster and leaves every
\* other room unchanged.
C21_CreateRoomEffect ==
    \A c \in Conns, p \in CreatePayloads :
        (Creates(c, p) /\ p.present) =>
            LET res == HandleCreateRoom(c, p)
                id == clients[c].pid
            IN  IF p.roomName = Undef
                THEN Registries(res) = Registries(Cur) /\ res.sent = <<>>
                ELSE \E r \in RoomIds :
                        /\ r \notin rooms /\ r > fresh.r
                        /\ res.rooms = rooms \cup {r}
                        /\ res.roomObj[r].name = p.roomName
                        /\ res.roomObj[r].broadcasterId = id
                        /\ res.roomObj[r].viewers = {}
                        /\ res.roomObj[r].mutedViewers = {}
                        /\ res.roomObj[r].isAnchorMuted = FALSE
                        /\ res.roomObj[r].status = "active"
                        /\ res.roomObj[r].reconnectTimeout = Undef
                        /\ \A x \in RoomIds \ {r} : res.roomObj[x] = roomObj[x]
                        /\ res.p2r = [p2r EXCEPT ![id] = r]
                        /\ res.clients = [clients EXCEPT ![c].role = "broadcaster"]
                        /\ res.p2c = p2c /\ res.timers = timers
                        /\ res.sockets = sockets /\ res.running
                        /\ res.sent = <<Msg(c, "room-created", r, p.roomName)>>

\* A connection whose identity is indexed to a room of the directory asks
\* for one more room.
C21_Witness ==
    \E c \in Conns, p \in CreatePayloads :
        /\ Creates(c, p) /\ p.present /\ p.roomName # Undef
        /\ fresh.r < shape.rooms
        /\ p2r[clients[c].pid] \in rooms

\* Connection c is a viewer whose identity is indexed to room r.
ViewerOf(c, r) ==
    /\ Receives(c)
    /\ r \in rooms
    /\ clients[c].pid # Undef
    /\ clients[c].role = "viewer"
    /\ p2r[clients[c].pid] = r

\* C22: a leave-room by a viewer removes its identity from the room's viewers
\* and leaves mutedViewers as it is, so a muted viewer that left is admitted
\* again as a muted viewer and is told so; the cleanup of a viewer's closed
\* connection removes its identity from viewers and from mutedViewers.
C22_LeaveKeepsMuteCloseClears ==
    /\ \A c \in Conns, r \in RoomIds :
           ViewerOf(c, r) =>
               LET id == clients[c].pid
                   l == HandleLeaveRoom(c).roomObj[r]
                   d == HandleDisconnect(c).roomObj[r]
               IN  /\ l.viewers = roomObj[r].viewers \ {id}
                   /\ l.mutedViewers = roomObj[r].mutedViewers
                   /\ d.viewers = roomObj[r].viewers \ {id}
                   /\ d.mutedViewers = roomObj[r].mutedViewers \ {id}
    /\ \A c \in Conns, p \in JoinPayloads :
           (JoinsRoom(c, p) /\ clients[c].pid \in MutedOutside(roomObj, p.roomId)
              /\ ~PasswordRejected(roomObj[p.roomId], p.password)) =>
               LET id == clients[c].pid
                   res == JoinRoomBound(c, p)
               IN  /\ id \in res.roomObj[p.roomId].viewers
                   /\ res.roomObj[p.roomId].mutedViewers = roomObj[p.roomId].mutedViewers
                   /\ Count(res.sent, c, "viewer-muted-status") = 1
                   /\ Msg(c, "viewer-muted-status", id, 1) \in Range(res.sent)

\* A muted viewer has left by leave-room; its connection is still open, in
\* no room, and can join again.
C22_Witness ==
    \E c \in Conns, r \in rooms :
        /\ Receives(c)
        /\ clients[c].pid \in MutedOutside(roomObj, r)
        /\ clients[c].role = "none"
        /\ p2r[clients[c].pid] = Undef

\* Timer t is the current timer of its room, which exists and is pending.
CurrentTimer(t) ==
    /\ t.r \in rooms
    /\ roomObj[t.r].status = "pending_rejoin"
    /\ roomObj[t.r].reconnectTimeout = t.h

\* C23: the fire of a reconnect timer has an effect only if the room it was
\* started for still exists and is pending_rejoin with that timer as its
\* current timer; a fire in any other situation sends nothing, deletes no
\* index entry and removes or changes no room.
C23_StaleFireDoesNothing ==
    \A t \in timers :
        (running /\ ~CurrentTimer(t)) =>
            LET res == ReconnectTimeout(t)
            IN  /\ res.sent = <<>>
                /\ res.rooms = rooms
                /\ res.p2r = p2r
                /\ res.p2c = p2c
                /\ res.clients = clients
                /\ \A r \in rooms : res.roomObj[r] = roomObj[r]

\* The step installs the registries of res.
StepIs(res) ==
    /\ running' = res.running /\ sockets' = res.sockets
    /\ clients' = res.clients /\ p2c' = res.p2c
    /\ rooms' = res.rooms /\ roomObj' = res.roomObj
    /\ p2r' = res.p2r /\ timers' = res.timers

\* The pending timers of room r.
TimersOf(tms, r) == {t \in tms : t.r = r}

C25_ExpiryClearsViewerEntries ==
    \A t \in timers :
        (running /\ t.r \in rooms) =>
            LET res == ReconnectTimeout(t)
            IN  /\ t.r \notin res.rooms
                /\ \A v \in roomObj[t.r].viewers : res.p2r[v] # t.r

\* C26: at most one reconnect timer is pending for a room at any moment, also
\* when several connections of the broadcaster close one after another while
\* the room is pending_rejoin already, and a successful rejoin-room leaves no
\* pending timer for the room.
C26_OneTimerPerRoom ==
    /\ \A r \in RoomIds : Cardinality(TimersOf(timers, r)) <= 1
    /\ \A c \in Conns, p \in RejoinPayloads :
           RejoinAccepted(c, p) =>
               TimersOf(HandleRejoinRoom(c, p).timers, p.roomId) = {}

\* Connection c is an old connection of the broadcaster of room r: the
\* identity is bound, by the index, to another open connection that holds
\* the broadcaster role for the active room.
Superseded(c, r) ==
    /\ running /\ c \in sockets
    /\ r \in rooms
    /\ roomObj[r].status = "active"
    /\ clients[c].pid # Undef
    /\ clients[c].pid = roomObj[r].broadcasterId
    /\ \E n \in sockets \ {c} :
           /\ p2c[clients[c].pid] = n
           /\ clients[n].pid = clients[c].pid
           /\ clients[n].role = "broadcaster"

\* C27: a room is pending_rejoin only while its broadcaster has no live bound
\* connection: the close of an old connection of the broadcaster, handled
\* after the broadcaster registered and rejoined on a new connection, leaves
\* the room active and starts no timer.
C27_OldCloseKeepsRoomActive ==
    \A c \in Conns, r \in RoomIds :
        Superseded(c, r) =>
            LET res == HandleDisconnect(c)
            IN  /\ res.roomObj[r].status = "active"
                /\ res.timers = timers

\* C28: in every reachable state every entry of the identity->room index
\* names a room of the directory in which the identity is the broadcaster or
\* one of the viewers; no entry survives the removal of its room, the
\* broadcaster's included.
C28_RoomIndexIsLive ==
    \A i \in Ids :
        p2r[i] # Undef =>
            /\ p2r[i] \in rooms
            /\ \/ roomObj[p2r[i]].broadcasterId = i
               \/ i \in roomObj[p2r[i]].viewers

\* C29: in every reachable state every entry of the identity->connection
\* index names a connection that is in the connection registry and is bound
\* to that identity; no entry remains for the old identity of a connection
\* that registered again under another identity.
C29_ConnIndexIsLive ==
    \A i \in Ids :
        p2c[i] # Undef =>
            /\ clients[p2c[i]].reg
            /\ clients[p2c[i]].pid = i

\* Room r is in the directory and no open connection is bound to its
\* broadcaster identity.
Abandoned(r) ==
    /\ r \in rooms
    /\ \A c \in sockets : clients[c].pid # roomObj[r].broadcasterId

\* C30: with timers that fire, every room whose broadcaster identity has no
\* live connection is eventually removed from the directory unless the
\* broadcaster comes back, also a room whose broadcaster created a second
\* room or sent leave-room before its connection closed.
C30_AbandonedRoomIsRemoved ==
    \A r \in RoomIds : Abandoned(r) ~> (r \notin rooms \/ ~Abandoned(r))

\* C31: the expiry of a timer of room R changes only R and index entries
\* that refer to R: it deletes no identity->room entry that names another
\* room, such as the entry of a viewer of R that went on to another room
\* while R was pending_rejoin, and it leaves every other room unchanged.
C31_ExpiryTouchesOnlyItsRoom ==
    \A t \in timers :
        running =>
            LET res == ReconnectTimeout(t)
            IN  /\ \A i \in Ids : p2r[i] # t.r => res.p2r[i] = p2r[i]
                /\ \A r \in rooms \ {t.r} :
                       r \in res.rooms /\ res.roomObj[r] = roomObj[r]

\* C32: a successful rejoin-room changes only the broadcaster's binding and
\* role and the room's name, password, status and timer: viewers,
\* mutedViewers and the anchor-mute flag stay, no other room, connection or
\* index entry changes, and the room's password afterwards is the password
\* of the request, none when the request carries none even if the room had
\* one before.
C32_RejoinFrame ==
    \A c \in Conns, p \in RejoinPayloads :
        RejoinAccepted(c, p) =>
            LET res == HandleRejoinRoom(c, p)
                r == p.roomId
                id == clients[c].pid
                room == res.roomObj[r]
            IN  /\ room.viewers = roomObj[r].viewers
                /\ room.mutedViewers = roomObj[r].mutedViewers
                /\ room.isAnchorMuted = roomObj[r].isAnchorMuted
                /\ room.broadcasterId = roomObj[r].broadcasterId
                /\ room.password = p.password
                /\ room.name = p.roomName
                /\ room.status = "active"
                /\ room.reconnectTimeout = Undef
                /\ res.rooms = rooms
                /\ \A x \in RoomIds \ {r} : res.roomObj[x] = roomObj[x]
                /\ res.p2r = p2r
                /\ \A i \in Ids \ {id} : res.p2c[i] = p2c[i]
                /\ res.p2c[id] = c
                /\ \A x \in Conns \ {c} : res.clients[x] = clients[x]
                /\ res.clients[c] = [clients[c] EXCEPT !.role = "broadcaster"]
                /\ res.sockets = sockets /\ res.kickPending = kickPending
                /\ res.timers \subseteq timers
                /\ \A t \in timers \ res.timers :
                       t.r = r /\ t.h = roomObj[r].reconnectTimeout

\* The broadcaster of a pending, password-protected room with a viewer and
\* the anchor-mute flag set asks to rejoin without a password.
C32_Witness ==
    \E c \in Conns, p \in RejoinPayloads :
        /\ RejoinAccepted(c, p)
        /\ p.password = Undef
        /\ roomObj[p.roomId].password # Undef
        /\ roomObj[p.roomId].status = "pending_rejoin"
        /\ roomObj[p.roomId].viewers # {}
        /\ roomObj[p.roomId].isAnchorMuted
=============================================================================
